---- MODULE Spec2Model ----
(***************************************************************************)
(* awsfabrictasks.s3.tasks: the fabric tasks that wrap the S3 client.      *)
(* One task runs per process ("fab <task>:<args>"); what survives between  *)
(* two invocations is the remote bucket and the local file system.         *)
(* Strings that the code inspects (key names, prefixes, glob patterns) are *)
(* sequences of one-character strings.                                     *)
(***************************************************************************)
EXTENDS Naturals, Sequences, FiniteSets

VARIABLES remote, local, pc, inv, log, out, result

vars == <<remote, local, pc, inv, log, out, result>>

(* ------------------------------------------------------------------ *)
(* Bounds and finite input domains                                     *)
(* ------------------------------------------------------------------ *)

\* longest glob pattern passed as match= in the listing specification
MaxPatLen == 2
\* longest string passed as search= in the listing specification
MaxSearchLen == 1

Contents == {"hello", "world"}
NoObj == "<no such key>"
NoFile == "<no such file>"
NoArg == "<no argument>"

BucketName == "bucket1"
KeyA == <<"a">>
KeyAB == <<"a", "/", "b">>
KeyBA == <<"b", "a">>
\* the key names of the bucket, in the order the service lists them (sorted)
KeyOrder == <<KeyA, KeyAB, KeyBA>>
KeyNames == {KeyOrder[i] : i \in 1..Len(KeyOrder)}
Paths == {"f1", "f2"}

\* argument values as python sees them: the defaults are the bool objects,
\* anything given on the fab command line arrives as a str
PyFalse == "bool:False"
PyTrue == "bool:True"
StrFalse == "str:false"
StrTrue == "str:true"
StrEmpty == "str:"
FlagArgs == {PyFalse, PyTrue, StrFalse, StrTrue, StrEmpty}

\* optional string arguments (search, match): None or a string
None == [some |-> FALSE, s |-> <<>>]
Some(s) == [some |-> TRUE, s |-> s]

SeqsUpTo(S, n) == UNION {[1..k -> S] : k \in 0..n}

Styles == {"compact", "verbose", "nameonly", "bogus"}
Prefixes == {<<>>, <<"a">>, <<"b">>}
Delimiters == {"/", ""}
RemoteDirs == {<<"a">>, <<"a", "/">>, <<"b">>}

\* python truth value of an argument: False and '' are false, any other str is true
Truthy(v) == v \notin {PyFalse, StrEmpty}
\* python truth value of an optional string: None and '' are false
TruthyStr(o) == o.some /\ o.s # <<>>

(* ------------------------------------------------------------------ *)
(* The invocation record, the call log and the printed lines            *)
(* ------------------------------------------------------------------ *)

NoInv == [task |-> "none", bucketname |-> BucketName, keyname |-> <<>>,
          localfile |-> NoArg, contents |-> NoArg, overwrite |-> PyFalse,
          noconfirm |-> PyFalse, answer |-> FALSE, prefix |-> <<>>,
          search |-> None, match |-> None, style |-> "compact",
          delimiter |-> "/", remote_dir |-> <<>>]

\* one call made on a collaborator (storage client, console, file system):
\* the operation, the key name or prefix it names, and its other argument
Ev(op, key, arg) == [op |-> op, key |-> key, arg |-> arg]
\* one printed line
Line(fmt, name, val) == [fmt |-> fmt, name |-> name, val |-> val]

Ops(l) == {l[i].op : i \in 1..Len(l)}
Count(l, op) == Cardinality({i \in 1..Len(l) : l[i].op = op})
\* calls that create, overwrite or delete a remote object
RemoteWriteOps == {"set_contents_from_string", "set_contents_from_filename", "delete"}
\* calls that are requests to the storage service
RemoteOps == RemoteWriteOps \cup {"get_bucket", "get_connection", "get_all_buckets",
                                  "get_logging_status", "get_location", "list", "head",
                                  "exists", "get_contents_as_string",
                                  "get_contents_to_filename"}
\* requests that transfer an object's body
BodyOps == {"get_contents_as_string", "get_contents_to_filename",
            "set_contents_from_string", "set_contents_from_filename"}

(* ------------------------------------------------------------------ *)
(* Collaborators: awsfabrictasks.s3.api, awsfabrictasks.utils, fnmatch  *)
(* ------------------------------------------------------------------ *)

\* fnmatch.fnmatchcase(name, pat): '*' matches any run of characters, '?' any
\* one character, every other character itself; case-sensitive, whole name
RECURSIVE fnmatchcase(_, _)
fnmatchcase(name, pat) ==
    IF pat = <<>> THEN name = <<>>
    ELSE IF Head(pat) = "*"
         THEN fnmatchcase(name, Tail(pat))
              \/ (name # <<>> /\ fnmatchcase(Tail(name), pat))
    ELSE IF Head(pat) = "?"
         THEN name # <<>> /\ fnmatchcase(Tail(name), Tail(pat))
    ELSE name # <<>> /\ Head(name) = Head(pat) /\ fnmatchcase(Tail(name), Tail(pat))

StartsWith(s, p) == Len(p) <= Len(s) /\ SubSeq(s, 1, Len(p)) = p

\* the entry bucket.list(prefix, delimiter) yields for a key: the key itself, or
\* the common prefix up to the first delimiter after the prefix
ListEntry(k, prefix, delimiter) ==
    LET hits == {j \in (Len(prefix) + 1)..Len(k) : k[j] = delimiter}
    IN IF delimiter = "" \/ hits = {} THEN k
       ELSE SubSeq(k, 1, CHOOSE j \in hits : \A h \in hits : j <= h)

RECURSIVE Dedup(_)
Dedup(s) ==
    IF Len(s) <= 1 THEN s
    ELSE IF s[1] = s[2] THEN Dedup(Tail(s))
    ELSE <<s[1]>> \o Dedup(Tail(s))

RECURSIVE MapEntries(_, _, _)
MapEntries(s, prefix, delimiter) ==
    IF s = <<>> THEN <<>>
    ELSE <<ListEntry(Head(s), prefix, delimiter)>> \o MapEntries(Tail(s), prefix, delimiter)

\* bucket.list(prefix, delimiter): the names under the prefix, sorted, common
\* prefixes rolled up once
BucketList(rem, prefix, delimiter) ==
    LET Under(k) == rem[k] # NoObj /\ StartsWith(k, prefix)
    IN Dedup(MapEntries(SelectSeq(KeyOrder, Under), prefix, delimiter))

\* api.iter_bucketcontents(bucket, prefix, match, delimiter, formatter): the
\* listed names, filtered by the glob when one is given
iter_bucketcontents(rem, prefix, match, delimiter) ==
    LET Keep(n) == ~TruthyStr(match) \/ fnmatchcase(n, match.s)
    IN SelectSeq(BucketList(rem, prefix, delimiter), Keep)

\* utils.force_slashend(path): the path, ending with exactly one more "/" if it
\* did not end with one
force_slashend(path) ==
    IF path # <<>> /\ path[Len(path)] = "/" THEN path ELSE path \o <<"/">>

\* utils.parse_bool(obj): True for the bool True and the strings "true"/"True"
parse_bool(v) == v \in {PyTrue, StrTrue}

\* the md5 hex digest of a content (injective on Contents)
compute_localfile_md5sum(c) ==
    IF c = "hello" THEN "5d41402abc4b2a76b9719d911017c592"
    ELSE "7d793037a0760186574b0282f2f435e7"

\* the double-quote character
Quote == "dquote"
\* the ETag the service reports for an object: the md5 hex digest in quotes
Etag(c) == <<Quote, compute_localfile_md5sum(c), Quote>>

\* S3File.etag_matches_localfile: the ETag with its quotes stripped equals the
\* local digest
etag_matches_localfile(etag, c) ==
    LET NotQuote(x) == x # Quote
    IN SelectSeq(etag, NotQuote) = <<compute_localfile_md5sum(c)>>

(* ------------------------------------------------------------------ *)
(* The tasks                                                            *)
(* ------------------------------------------------------------------ *)

Init ==
    /\ remote = [k \in KeyNames |-> NoObj]
    /\ local \in [Paths -> Contents \cup {NoFile}]
    /\ pc = "idle"
    /\ inv = NoInv
    /\ log = <<>>
    /\ out = <<>>
    /\ result = "none"

\* the task has run to its end, to abort() or to an uncaught exception
Finish(i, l, o, r, rem) ==
    /\ pc = "idle"
    /\ pc' = "done"
    /\ inv' = i
    /\ log' = l
    /\ out' = o
    /\ result' = r
    /\ remote' = rem
    /\ UNCHANGED local

\* S3ConnectionWrapper.get_bucket_using_pattern(bucketname)
GetBucket(bucketname) == Ev("get_bucket", <<>>, bucketname)
\* S3File(bucket, keyname): the handle alone, no request
NewS3File(keyname) == Ev("S3File", keyname, NoArg)

\* s3_ls: the style check
StyleValidNoCheck(style) == TRUE
StyleValid(style) == style \in {"compact", "verbose", "nameonly"}

\* s3_ls: the header line, printed for the compact style only
Header(style) ==
    IF style = "compact" THEN <<Line("header", <<"NAME">>, "SIZE LAST MODIFIED MODE")>>
    ELSE <<>>

\* s3_ls: the glob handed to iter_bucketcontents
EffectiveMatch(search, match) ==
    IF TruthyStr(search) THEN Some(<<"*">> \o search.s \o <<"*">>) ELSE match

RECURSIVE FormatLines(_, _)
FormatLines(names, style) ==
    IF names = <<>> THEN <<>>
    ELSE <<Line(style, Head(names), "")>> \o FormatLines(Tail(names), style)

\* s3_ls: everything a run with a valid style prints
LsOutput(rem, prefix, search, match, style, delimiter) ==
    Header(style) \o
    FormatLines(iter_bucketcontents(rem, prefix, EffectiveMatch(search, match),
                                    delimiter), style)

s3_ls(bucketname, prefix, search, match, style, delimiter) ==
    LET i == [NoInv EXCEPT !.task = "s3_ls", !.bucketname = bucketname,
                           !.prefix = prefix, !.search = search, !.match = match,
                           !.style = style, !.delimiter = delimiter]
    IN IF ~StyleValid(style)
       THEN Finish(i, <<GetBucket(bucketname)>>, <<>>, "abort", remote)
       ELSE Finish(i, <<GetBucket(bucketname), Ev("list", prefix, delimiter)>>,
                   LsOutput(remote, prefix, search, match, style, delimiter),
                   "ok", remote)

s3_listbuckets ==
    Finish([NoInv EXCEPT !.task = "s3_listbuckets"],
           <<Ev("get_connection", <<>>, NoArg), Ev("get_all_buckets", <<>>, NoArg),
             Ev("get_logging_status", <<>>, BucketName),
             Ev("get_location", <<>>, BucketName)>>,
           <<Line("bucket", <<>>, BucketName), Line("location", <<>>, ""),
             Line("loggingstatus", <<>>, ""), Line("enabled", <<>>, ""),
             Line("prefix", <<>>, ""), Line("grants", <<>>, "")>>,
           "ok", remote)

\* S3File.set_contents_from_string / set_contents_from_filename(.., overwrite):
\* S3FileExistsError when the key exists and overwrite is false, else the write;
\* the existence request is made only when overwrite is false
SetContents(op, keyname, data, overwrite) ==
    IF Truthy(overwrite)
    THEN [log |-> <<Ev(op, keyname, data)>>, raised |-> "none",
          rem |-> [remote EXCEPT ![keyname] = data]]
    ELSE IF remote[keyname] # NoObj
    THEN [log |-> <<Ev("exists", keyname, NoArg)>>, raised |-> "S3FileExistsError",
          rem |-> remote]
    ELSE [log |-> <<Ev("exists", keyname, NoArg), Ev(op, keyname, data)>>,
          raised |-> "none", rem |-> [remote EXCEPT ![keyname] = data]]

\* s3_createfile / s3_uploadfile: the overwrite value handed to the S3File
PassedOverwriteAlways(overwrite) == PyTrue
PassedOverwrite(overwrite) == overwrite

\* s3_createfile / s3_uploadfile: S3FileExistsError is turned into abort()
OnRaised(raised) == IF raised = "S3FileExistsError" THEN "abort" ELSE "ok"

s3_createfile(bucketname, keyname, contents, overwrite) ==
    LET i == [NoInv EXCEPT !.task = "s3_createfile", !.bucketname = bucketname,
                           !.keyname = keyname, !.contents = contents,
                           !.overwrite = overwrite]
        w == SetContents("set_contents_from_string", keyname, contents,
                         PassedOverwrite(overwrite))
    IN Finish(i, <<GetBucket(bucketname), NewS3File(keyname)>> \o w.log, <<>>,
              OnRaised(w.raised), w.rem)

s3_uploadfile(bucketname, keyname, localfile, overwrite) ==
    LET i == [NoInv EXCEPT !.task = "s3_uploadfile", !.bucketname = bucketname,
                           !.keyname = keyname, !.localfile = localfile,
                           !.overwrite = overwrite]
        head == <<GetBucket(bucketname), NewS3File(keyname)>>
        w == SetContents("set_contents_from_filename", keyname, local[localfile],
                         PassedOverwrite(overwrite))
    IN IF w.raised = "none" /\ local[localfile] = NoFile
       THEN \* the local file cannot be opened: IOError, nothing is sent
            Finish(i, head \o SelectSeq(w.log, LAMBDA e : e.op = "exists"), <<>>,
                   "error", remote)
       ELSE Finish(i, head \o w.log, <<>>, OnRaised(w.raised), w.rem)

s3_printfile(bucketname, keyname) ==
    LET i == [NoInv EXCEPT !.task = "s3_printfile", !.bucketname = bucketname,
                           !.keyname = keyname]
        l == <<GetBucket(bucketname), NewS3File(keyname),
               Ev("get_contents_as_string", keyname, NoArg)>>
    IN IF remote[keyname] = NoObj
       THEN Finish(i, l, <<>>, "error", remote)
       ELSE Finish(i, l, <<Line("body", <<>>, remote[keyname])>>, "ok", remote)

\* s3_downloadfile: the guard on the local file
DownloadGuardInverted(localfile, overwrite) ==
    local[localfile] # NoFile /\ Truthy(overwrite)
DownloadGuard(localfile, overwrite) ==
    local[localfile] # NoFile /\ ~Truthy(overwrite)

\* s3_downloadfile: the calls made before the guard is evaluated (none)
DownloadPreGuardCallsLookupFirst(bucketname) == <<GetBucket(bucketname)>>
DownloadPreGuardCalls(bucketname) == <<>>

\* s3_downloadfile: the destination handed to get_contents_to_filename; the
\* call is written without arguments
DownloadDest(localfile) == NoArg

s3_downloadfile(bucketname, keyname, localfile, overwrite) ==
    LET i == [NoInv EXCEPT !.task = "s3_downloadfile", !.bucketname = bucketname,
                           !.keyname = keyname, !.localfile = localfile,
                           !.overwrite = overwrite]
        dest == DownloadDest(localfile)
        l == DownloadPreGuardCalls(bucketname) \o
             <<GetBucket(bucketname), NewS3File(keyname),
               Ev("get_contents_to_filename", keyname, dest)>>
    IN IF DownloadGuard(localfile, overwrite)
       THEN Finish(i, DownloadPreGuardCalls(bucketname), <<>>, "abort", remote)
       ELSE IF dest = NoArg
       THEN \* TypeError: the required file name is missing; nothing is fetched
            Finish(i, l, <<>>, "error", remote)
       ELSE IF remote[keyname] = NoObj
       THEN Finish(i, l, <<>>, "error", remote)
       ELSE /\ pc = "idle" /\ pc' = "done" /\ inv' = i /\ log' = l
            /\ out' = <<Line("none", <<>>, "None")>> /\ result' = "ok"
            /\ local' = [local EXCEPT ![dest] = remote[keyname]]
            /\ UNCHANGED remote

\* s3_delete: whether the confirmation prompt is shown
NeedsConfirmInverted(noconfirm) == parse_bool(noconfirm)
NeedsConfirm(noconfirm) == ~parse_bool(noconfirm)

s3_delete(bucketname, keyname, noconfirm, answer) ==
    LET asked == NeedsConfirm(noconfirm)
        i == [NoInv EXCEPT !.task = "s3_delete", !.bucketname = bucketname,
                           !.keyname = keyname, !.noconfirm = noconfirm,
                           !.answer = asked /\ answer]
        head == <<GetBucket(bucketname), NewS3File(keyname)>>
        prompt == IF asked
                  THEN <<Ev("confirm", keyname, IF answer THEN "yes" ELSE "no")>>
                  ELSE <<>>
    IN IF asked /\ ~answer
       THEN Finish(i, head \o prompt, <<>>, "abort", remote)
       ELSE Finish(i, head \o prompt \o <<Ev("delete", keyname, NoArg)>>, <<>>, "ok",
                   [remote EXCEPT ![keyname] = NoObj])

\* s3_same_file: S3File(bucket, keyname, head=True), the handle and one
\* metadata request that brings the ETag
SameFileHandleWithBody(keyname) ==
    <<NewS3File(keyname), Ev("head", keyname, NoArg),
      Ev("get_contents_as_string", keyname, NoArg)>>
SameFileHandle(keyname) == <<NewS3File(keyname), Ev("head", keyname, NoArg)>>

\* s3_same_file: the comparison that is printed
SameFileCompareRaw(keyname, localfile) ==
    Etag(remote[keyname]) = <<compute_localfile_md5sum(local[localfile])>>
SameFileCompare(keyname, localfile) ==
    etag_matches_localfile(Etag(remote[keyname]), local[localfile])

s3_same_file(bucketname, keyname, localfile) ==
    LET i == [NoInv EXCEPT !.task = "s3_same_file", !.bucketname = bucketname,
                           !.keyname = keyname, !.localfile = localfile]
        l == <<GetBucket(bucketname)>> \o SameFileHandle(keyname)
    IN IF remote[keyname] = NoObj \/ local[localfile] = NoFile
       THEN Finish(i, l, <<>>, "error", remote)
       ELSE Finish(i, l \o <<Ev("read_local", <<>>, localfile)>>,
                   <<Line("bool", <<>>,
                          IF SameFileCompare(keyname, localfile) THEN "True"
                          ELSE "False")>>,
                   "ok", remote)

\* s3_upload_dir: the prefix that is listed
UploadDirPrefix(remote_dir) == force_slashend(remote_dir)

\* s3_upload_dir with the upload carried out for one file of the directory
s3_upload_dir_uploading(bucketname, local_dir, remote_dir) ==
    LET i == [NoInv EXCEPT !.task = "s3_upload_dir", !.bucketname = bucketname,
                           !.localfile = local_dir, !.remote_dir = remote_dir]
        prefix == UploadDirPrefix(remote_dir)
    IN Finish(i, <<GetBucket(bucketname), Ev("list", prefix, ""),
                   Ev("set_contents_from_filename", KeyAB, "hello")>>,
              FormatLines(BucketList(remote, prefix, ""), "repr"), "ok",
              [remote EXCEPT ![KeyAB] = "hello"])

s3_upload_dir(bucketname, local_dir, remote_dir) ==
    LET i == [NoInv EXCEPT !.task = "s3_upload_dir", !.bucketname = bucketname,
                           !.localfile = local_dir, !.remote_dir = remote_dir]
        prefix == UploadDirPrefix(remote_dir)
    IN Finish(i, <<GetBucket(bucketname), Ev("list", prefix, "")>>,
              FormatLines(BucketList(remote, prefix, ""), "repr"), "ok", remote)

\* the process ends; the next fab invocation starts from scratch
Exit ==
    /\ pc = "done"
    /\ pc' = "idle"
    /\ inv' = NoInv
    /\ log' = <<>>
    /\ out' = <<>>
    /\ result' = "none"
    /\ UNCHANGED <<remote, local>>

SearchArgs == {None, Some(<<>>), Some(<<"a">>)}
MatchArgs == {None, Some(<<"b", "*">>)}

Next ==
    \/ \E prefix \in Prefixes, search \in SearchArgs, match \in MatchArgs,
          style \in Styles, delimiter \in Delimiters :
          s3_ls(BucketName, prefix, search, match, style, delimiter)
    \/ s3_listbuckets
    \/ \E k \in KeyNames, c \in Contents, o \in FlagArgs :
          s3_createfile(BucketName, k, c, o)
    \/ \E k \in KeyNames, f \in Paths, o \in FlagArgs :
          s3_uploadfile(BucketName, k, f, o)
    \/ \E k \in KeyNames : s3_printfile(BucketName, k)
    \/ \E k \in KeyNames, f \in Paths, o \in FlagArgs :
          s3_downloadfile(BucketName, k, f, o)
    \/ \E k \in KeyNames, n \in FlagArgs, answer \in BOOLEAN :
          s3_delete(BucketName, k, n, answer)
    \/ \E k \in KeyNames, f \in Paths : s3_same_file(BucketName, k, f)
    \/ \E d \in RemoteDirs : s3_upload_dir(BucketName, "dir1", d)
    \/ Exit

Spec == Init /\ [][Next]_vars

(* The listing on its own: any bucket contents, every pattern up to the bounds *)

SearchChars == {"a", "b"}
PatChars == {"a", "b", "*", "?"}
AllSearchArgs == {None} \cup {Some(s) : s \in SeqsUpTo(SearchChars, MaxSearchLen)}
AllMatchArgs == {None} \cup {Some(s) : s \in SeqsUpTo(PatChars, MaxPatLen)}

InitLs ==
    /\ remote \in [KeyNames -> {NoObj, "hello"}]
    /\ local = [f \in Paths |-> NoFile]
    /\ pc = "idle"
    /\ inv = NoInv
    /\ log = <<>>
    /\ out = <<>>
    /\ result = "none"

NextLs ==
    \/ \E prefix \in Prefixes, search \in AllSearchArgs, match \in AllMatchArgs,
          style \in Styles, delimiter \in Delimiters :
          s3_ls(BucketName, prefix, search, match, style, delimiter)
    \/ Exit

SpecLs == InitLs /\ [][NextLs]_vars

(* ------------------------------------------------------------------ *)
(* Properties                                                           *)
(* ------------------------------------------------------------------ *)

\* the step is the run of one task
Invoked == pc = "idle" /\ pc' = "done"

Before(l, i, j) == i \in 1..Len(l) /\ j \in 1..Len(l) /\ i < j

\* C1: s3_createfile or s3_uploadfile with overwrite False on a key that exists
\* aborts, issues no write to the bucket and leaves every remote object as it was.
C1_NoOverwriteAborts ==
    [][(/\ Invoked
        /\ inv'.task \in {"s3_createfile", "s3_uploadfile"}
        /\ inv'.overwrite = PyFalse
        /\ remote[inv'.keyname] # NoObj)
       => (/\ result' = "abort"
           /\ remote' = remote
           /\ Ops(log') \cap RemoteWriteOps = {})]_vars

C1_Witness ==
    /\ inv.task = "s3_createfile"
    /\ inv.overwrite = PyFalse
    /\ remote[inv.keyname] \in Contents
    /\ remote[inv.keyname] # inv.contents
    /\ result = "abort"

\* C2: s3_downloadfile with overwrite False on a local path that exists aborts
\* and leaves the local files as they were.
C2_ExistingLocalAborts ==
    [][(/\ Invoked
        /\ inv'.task = "s3_downloadfile"
        /\ inv'.overwrite = PyFalse
        /\ local[inv'.localfile] # NoFile)
       => (result' = "abort" /\ local' = local)]_vars

C2_Witness ==
    /\ inv.task = "s3_downloadfile"
    /\ inv.overwrite = PyFalse
    /\ local[inv.localfile] # NoFile
    /\ remote[inv.keyname] \in Contents
    /\ result = "abort"

Declined(l) == \E i \in 1..Len(l) : l[i].op = "confirm" /\ l[i].arg = "no"

C3_DeleteState ==
    inv.task = "s3_delete" =>
        /\ ("confirm" \in Ops(log)) <=> ~parse_bool(inv.noconfirm)
        /\ "delete" \in Ops(log) =>
               \/ parse_bool(inv.noconfirm)
               \/ \E i, j \in 1..Len(log) :
                     /\ i < j
                     /\ log[i] = Ev("confirm", inv.keyname, "yes")
                     /\ log[j] = Ev("delete", inv.keyname, NoArg)
        /\ Declined(log) => result = "abort" /\ "delete" \notin Ops(log)

\* C3: s3_delete prompts exactly when noconfirm does not parse as true; a delete
\* is issued only with noconfirm true or after the answer yes; a declined prompt
\* aborts, issues no delete and leaves the bucket as it was.
C3_DeleteOnlyAfterConsent ==
    /\ []C3_DeleteState
    /\ [][(Invoked /\ Declined(log')) => remote' = remote]_vars

C3_Witness ==
    /\ inv.task = "s3_delete"
    /\ Declined(log)
    /\ remote[inv.keyname] \in Contents
    /\ result = "abort"

\* C4: whenever s3_downloadfile does not abort, the fetch-to-file call receives
\* the localfile argument as its destination.
C4_DestinationIsLocalfile ==
    (inv.task = "s3_downloadfile" /\ result # "abort") =>
        \E i \in 1..Len(log) :
            /\ log[i].op = "get_contents_to_filename"
            /\ log[i].arg = inv.localfile

\* C5: s3_ls with search=s prints what s3_ls with match="*s*" prints, for every
\* string s, whatever match was passed alongside.
C5_SearchIsStarMatch ==
    (inv.task = "s3_ls" /\ result = "ok" /\ inv.search.some) =>
        out = LsOutput(remote, inv.prefix, None,
                       Some(<<"*">> \o inv.search.s \o <<"*">>),
                       inv.style, inv.delimiter)

\* C6: s3_same_file prints True when the local file and the remote object have
\* the same content and False when they differ.
C6_PrintsTrueIffSameContent ==
    (inv.task = "s3_same_file" /\ result = "ok") =>
        /\ remote[inv.keyname] \in Contents
        /\ local[inv.localfile] \in Contents
        /\ out = <<Line("bool", <<>>,
                        IF remote[inv.keyname] = local[inv.localfile]
                        THEN "True" ELSE "False")>>

C6_Witness ==
    /\ inv.task = "s3_same_file"
    /\ result = "ok"
    /\ remote[inv.keyname] = local[inv.localfile]
    /\ out = <<Line("bool", <<>>, "True")>>

\* C7: s3_ls with a style other than compact, verbose, nameonly aborts, prints
\* nothing and never lists the bucket.
C7_InvalidStyleAborts ==
    (inv.task = "s3_ls" /\ inv.style \notin {"compact", "verbose", "nameonly"}) =>
        /\ result = "abort"
        /\ out = <<>>
        /\ "list" \notin Ops(log)

C7_Witness ==
    /\ inv.task = "s3_ls"
    /\ inv.style = "bogus"
    /\ \E k \in KeyNames : remote[k] # NoObj
    /\ result = "abort"

\* C8: one s3_same_file run makes exactly one metadata request for the key, no
\* request that transfers a body, and reads the local file once when it prints.
C8_OneHeadOneRead ==
    inv.task = "s3_same_file" =>
        /\ Count(log, "head") = 1
        /\ \A i \in 1..Len(log) : log[i].op = "head" => log[i].key = inv.keyname
        /\ Ops(log) \cap BodyOps = {}
        /\ Count(log, "read_local") = (IF result = "ok" THEN 1 ELSE 0)

C8_Witness ==
    /\ inv.task = "s3_same_file"
    /\ result = "ok"
    /\ Count(log, "head") = 1
    /\ Count(log, "read_local") = 1

ReadOnlyTasks == {"s3_ls", "s3_listbuckets", "s3_printfile", "s3_same_file",
                  "s3_upload_dir"}

\* C9: s3_ls, s3_listbuckets, s3_printfile, s3_same_file and s3_upload_dir leave
\* the bucket as it was and issue no create, overwrite or delete; s3_upload_dir
\* lists the prefix remote_dir, with a slash appended unless it ends with one.
C9_ReadOnlyTasks ==
    [][(Invoked /\ inv'.task \in ReadOnlyTasks)
       => (/\ remote' = remote
           /\ Ops(log') \cap RemoteWriteOps = {}
           /\ inv'.task = "s3_upload_dir" =>
                 /\ Count(log', "list") = 1
                 /\ \A i \in 1..Len(log') : log'[i].op = "list" =>
                       /\ log'[i].key[Len(log'[i].key)] = "/"
                       /\ log'[i].key \in {inv'.remote_dir,
                                            inv'.remote_dir \o <<"/">>})]_vars

C9_Witness ==
    /\ inv.task = "s3_upload_dir"
    /\ inv.remote_dir = <<"a">>
    /\ remote[KeyA] # NoObj
    /\ remote[KeyAB] # NoObj
    /\ result = "ok"

\* C10: an s3_downloadfile run that aborts on the local-file guard has made no
\* call at all; an s3_delete run that aborts on a declined prompt has looked up
\* the bucket and built the handle before prompting, and has issued no delete.
C10_GuardOrder ==
    /\ (inv.task = "s3_downloadfile" /\ result = "abort") =>
            Ops(log) \cap (RemoteOps \cup {"S3File"}) = {}
    /\ (inv.task = "s3_delete" /\ result = "abort") =>
            /\ log = <<GetBucket(inv.bucketname), NewS3File(inv.keyname),
                        Ev("confirm", inv.keyname, "no")>>
            /\ "delete" \notin Ops(log)

C10_Witness ==
    /\ inv.task = "s3_downloadfile"
    /\ result = "abort"
    /\ log = <<>>

====
